---- MODULE Spec2Model ----
(***************************************************************************)
(* A model of the feathers-datastore service (src/src/index.js): the       *)
(* Datastore class, its key and entity codecs and its six service methods, *)
(* running against a model of the Google Datastore client it calls.        *)
(*                                                                         *)
(* JavaScript values are records of one shape, so that any two of them can *)
(* be compared: t is the type tag, n the numeric value (numbers, booleans),*)
(* s the characters of a string, pad a run of further "a" characters that  *)
(* follows s (how the tests build their 1000 and 2000 character strings),  *)
(* kids the members of an array or the property values of an object.       *)
(***************************************************************************)
EXTENDS Integers, Sequences, FiniteSets, TLC

VARIABLES
    this,       \* the service object: id, kind, namespace, autoIndex
    store,      \* the datastore: a function from the keys present to entities
    autoId,     \* the next identifier the datastore allocates on insert
    before,     \* the datastore as it was when the last call started
    last,       \* the last call: its method, arguments, outcome and result
    reading     \* the patch between its read of the store and its write

vars == <<this, store, autoId, before, last, reading>>

----------------------------------------------------------------------------
(* Bounds of the model *)

\* longest string handed to makeKey as an id or to find as a filter value
MaxLen == 2
\* deepest nesting of a property value handed to makeExplicitEntity
MaxDepth == 2
\* most entities the datastore holds
MaxRecords == 2
\* most identifiers the datastore allocates
MaxAuto == 1

----------------------------------------------------------------------------
(* JavaScript values *)

Val(t, n, s, pad, kids) == [t |-> t, n |-> n, s |-> s, pad |-> pad, kids |-> kids]

Num(n) == Val("num", n, <<>>, 0, <<>>)

Str(s) == Val("str", 0, s, 0, <<>>)

\* a string of s followed by pad more "a" characters
Padded(s, pad) == Val("str", 0, s, pad, <<>>)

Bool(b) == Val("bool", IF b THEN 1 ELSE 0, <<>>, 0, <<>>)

Undefined == Val("undef", 0, <<>>, 0, <<>>)

Null == Val("null", 0, <<>>, 0, <<>>)

\* an array, or an object seen through its property values
Arr(kids) == Val("arr", 0, <<>>, 0, kids)

Obj(kids) == Val("obj", 0, <<>>, 0, kids)

\* a binary Buffer of n bytes
Buf(n) == Val("buf", 0, <<>>, n, <<>>)

\* the namespace that is not set (undefined, falsy)
NoNs == ""

DigitChars == <<"0", "1", "2", "3", "4", "5", "6", "7", "8", "9">>

IsDigit(c) == \E i \in DOMAIN DigitChars : DigitChars[i] = c

DigitVal(c) == (CHOOSE i \in DOMAIN DigitChars : DigitChars[i] = c) - 1

IsSpace(c) == c = " "

RECURSIVE SkipSpaces(_)
SkipSpaces(s) ==
    IF s # <<>> /\ IsSpace(Head(s)) THEN SkipSpaces(Tail(s)) ELSE s

\* the longest prefix of s made of digits
RECURSIVE DigitPrefix(_)
DigitPrefix(s) ==
    IF s # <<>> /\ IsDigit(Head(s)) THEN <<Head(s)>> \o DigitPrefix(Tail(s)) ELSE <<>>

RECURSIVE DigitsValue(_)
DigitsValue(s) ==
    IF s = <<>> THEN 0 ELSE 10 * DigitsValue(SubSeq(s, 1, Len(s) - 1)) + DigitVal(s[Len(s)])

NaN == [nan |-> TRUE, n |-> 0]

\* the characters after an optional sign
Unsigned(s) == IF s # <<>> /\ Head(s) \in {"-", "+"} THEN Tail(s) ELSE s

Sign(s) == IF s # <<>> /\ Head(s) = "-" THEN -1 ELSE 1

\* JavaScript's parseInt(v) on an integer number or a string: leading white
\* space and a sign are skipped, then the longest run of digits is read and
\* whatever follows it is ignored; NaN when there is no digit to read
parseInt(v) ==
    CASE v.t = "num" -> [nan |-> FALSE, n |-> v.n]
      [] v.t = "str" ->
            LET trimmed == SkipSpaces(v.s)
                digits  == DigitPrefix(Unsigned(trimmed))
            IN  IF digits = <<>> THEN NaN
                ELSE [nan |-> FALSE, n |-> Sign(trimmed) * DigitsValue(digits)]
      [] OTHER -> NaN

----------------------------------------------------------------------------
(* Keys *)

\* this.store.key(path): a key of the datastore client, which has no
\* namespace of its own here (the constructor gives it none)
StoreKey(path) == [namespace |-> NoNs, path |-> path]

\* a variant of the effective namespace without the service's default
NamespaceOfQuery(query) == query.namespace

\* the namespace a call works in
EffectiveNamespace(query) ==
    IF query.namespace # NoNs THEN query.namespace ELSE this.namespace

\* a variant of makeKey that leaves the identifier as it was passed
makeKeyAsPassed(id, params) ==
    LET key == IF id.t \in {"arr", "obj"} THEN StoreKey(id.kids) ELSE StoreKey(<<this.kind, id>>)
    IN  IF params.query.namespace # NoNs \/ this.namespace # NoNs
        THEN [key EXCEPT !.namespace = EffectiveNamespace(params.query)]
        ELSE key

makeKey(id, params) ==
    LET idAsNum == parseInt(id)
        key == IF id.t \in {"arr", "obj"}
               THEN StoreKey(id.kids)
               ELSE StoreKey(<<this.kind, IF ~idAsNum.nan THEN Num(idAsNum.n) ELSE id>>)
    IN  IF params.query.namespace # NoNs \/ this.namespace # NoNs
        THEN [key EXCEPT !.namespace = EffectiveNamespace(params.query)]
        ELSE key

\* Datastore.getKey(entity): the key the datastore attached, or the key field
getKey(entity) == entity.key

\* the last element of a key's path: the identifier of the entity
LastOf(path) == path[Len(path)]

----------------------------------------------------------------------------
(* Entities *)

\* a single value or an array of them, as the methods tell them apart with
\* Array.isArray
One(x) == [isArray |-> FALSE, items |-> <<x>>]

Many(xs) == [isArray |-> TRUE, items |-> xs]

MAX_INDEX_SIZE == 1500

\* the bytes of one character in UTF-8
Utf8Width(c) == IF c = "U+00E9" THEN 2 ELSE 1

RECURSIVE Utf8Length(_)
Utf8Length(s) == IF s = <<>> THEN 0 ELSE Utf8Width(Head(s)) + Utf8Length(Tail(s))

\* Buffer.from(value).length for a string or a Buffer
BufferLength(value) ==
    IF value.t = "buf" THEN value.pad ELSE Utf8Length(value.s) + value.pad

\* a variant of isBig whose limit starts at MAX_INDEX_SIZE itself
RECURSIVE isBigFromLimit(_)
isBigFromLimit(value) ==
    IF value.t \in {"str", "buf"}
    THEN BufferLength(value) >= MAX_INDEX_SIZE
    ELSE IF value.t \in {"obj", "arr"}
    THEN \E i \in DOMAIN value.kids : isBigFromLimit(value.kids[i])
    ELSE FALSE

RECURSIVE isBig(_)
isBig(value) ==
    IF value.t \in {"str", "buf"}
    THEN BufferLength(value) > MAX_INDEX_SIZE
    ELSE IF value.t \in {"obj", "arr"}
    THEN \E i \in DOMAIN value.kids : isBig(value.kids[i])
    ELSE FALSE

\* the dontIndex and autoIndex options of a call
IndexOptions(options) ==
    [dontIndex |-> options.query.dontIndex,
     autoIndex |-> IF options.query.autoIndex = Undefined
                   THEN this.autoIndex
                   ELSE options.query.autoIndex = Bool(TRUE)]

\* a variant of addExclusions that goes by size alone
addExclusionsBySize(response, options) ==
    IF IndexOptions(options).autoIndex
    THEN [response EXCEPT !.excludeFromIndexes = Bool(isBig(response.value))]
    ELSE response

addExclusions(response, options) ==
    LET opt == IndexOptions(options)
    IN  IF response.name \in opt.dontIndex
        THEN [response EXCEPT !.excludeFromIndexes = Bool(TRUE)]
        ELSE IF opt.autoIndex
        THEN [response EXCEPT !.excludeFromIndexes = Bool(isBig(response.value))]
        ELSE response

toBasicResponse(data, name) ==
    [name |-> name, value |-> data[name], excludeFromIndexes |-> Undefined]

\* the property list of an entity, one response per own property of data
expandData(data, options) ==
    [name \in DOMAIN data |-> addExclusions(toBasicResponse(data, name), options)]

makeExplicitOne(entity, options) ==
    [key |-> getKey(entity), data |-> expandData(entity.data, options)]

makeExplicitEntity(entity, options) ==
    [entity EXCEPT !.items =
        [i \in DOMAIN entity.items |-> makeExplicitOne(entity.items[i], options)]]

\* the flat properties of an entity in explicit syntax
Deconstruct(data) == [name \in DOMAIN data |-> data[name].value]

\* Object.assign({}, a, b)
Assign(a, b) ==
    [name \in DOMAIN a \cup DOMAIN b |-> IF name \in DOMAIN b THEN b[name] ELSE a[name]]

entityToPlainOne(entity, alreadyFlat) ==
    IF entity = Undefined THEN entity
    ELSE LET data == IF alreadyFlat THEN entity.data ELSE Deconstruct(entity.data)
         IN  Assign(data, [name \in {this.id} |-> LastOf(getKey(entity).path)])

entityToPlain(entity, alreadyFlat) ==
    [entity EXCEPT !.items =
        [i \in DOMAIN entity.items |-> entityToPlainOne(entity.items[i], alreadyFlat)]]

\* lodash pick(names): the properties of an object whose names are listed
pick(names, object) == [name \in DOMAIN object \cap names |-> object[name]]

----------------------------------------------------------------------------
(* The datastore client: this.store *)

\* the first identifier the datastore allocates; the identifiers callers
\* pass are smaller
FirstAutoId == 100

\* a key whose last path element is still to be allocated
IsIncomplete(key) == LastOf(key.path) = Undefined

SetToSeq(S) ==
    CHOOSE f \in [1..Cardinality(S) -> S] : \A i, j \in DOMAIN f : i # j => f[i] # f[j]

\* the entity the datastore hands back for a key: flat properties and the key
Stored(st, key) == [key |-> key, data |-> Deconstruct(st[key])]

\* this.store.get(key): the entity, or undefined
StoreGet(st, key) == IF key \in DOMAIN st THEN Stored(st, key) ELSE Undefined

\* the incomplete keys among the first n entities
Incomplete(items, n) == {i \in 1..n : IsIncomplete(items[i].key)}

\* the entities with the identifiers the datastore allocated written into
\* their keys (the client completes the key objects in place)
Allocated(items, next) ==
    [i \in DOMAIN items |->
        IF IsIncomplete(items[i].key)
        THEN [items[i] EXCEPT !.key.path[Len(items[i].key.path)] =
                 Num(FirstAutoId + next + Cardinality(Incomplete(items, i - 1)))]
        ELSE items[i]]

KeysOf(items) == {items[i].key : i \in DOMAIN items}

\* the datastore after writing the entities, a later one winning on a key
Written(st, items) ==
    [k \in DOMAIN st \cup KeysOf(items) |->
        IF k \in KeysOf(items)
        THEN items[CHOOSE i \in DOMAIN items :
                     items[i].key = k /\ \A j \in DOMAIN items : items[j].key = k => j <= i].data
        ELSE st[k]]

Fulfilled(st, next, entities) ==
    [ok |-> TRUE, store |-> st, autoId |-> next, entities |-> entities, err |-> Undefined]

Failed(st, next, entities, err) ==
    [ok |-> FALSE, store |-> st, autoId |-> next, entities |-> entities, err |-> err]

AlreadyExists == [code |-> 409, message |-> "entity already exists"]

NoEntityToUpdate == [code |-> 400, message |-> "no entity to update"]

\* this.store.insert(entities): all of them or none; an existing key fails
StoreInsert(st, next, entities) ==
    LET items == Allocated(entities.items, next)
        fresh == \A i \in DOMAIN items :
                    /\ items[i].key \notin DOMAIN st
                    /\ \A j \in DOMAIN items : items[j].key = items[i].key => j = i
    IN  IF fresh
        THEN Fulfilled(Written(st, items),
                       next + Cardinality(Incomplete(entities.items, Len(items))),
                       [entities EXCEPT !.items = items])
        ELSE Failed(st, next, entities, AlreadyExists)

\* this.store.update(entities): all of them or none; a missing key fails
StoreUpdate(st, next, entities) ==
    IF KeysOf(entities.items) \subseteq DOMAIN st
    THEN Fulfilled(Written(st, entities.items), next, entities)
    ELSE Failed(st, next, entities, NoEntityToUpdate)

\* this.store.upsert(entities)
StoreUpsert(st, next, entities) ==
    Fulfilled(Written(st, entities.items), next, entities)

\* this.store.delete(keys): keys that are not there are passed over
StoreDelete(st, keys) ==
    [k \in DOMAIN st \ {keys.items[i] : i \in DOMAIN keys.items} |-> st[k]]

\* whether a stored value satisfies one comparison of a query; values of
\* different types never compare, and only numbers are ordered
Compares(value, op, val) ==
    /\ value.t = val.t
    /\ CASE op = "="  -> value = val
         [] op = "<"  -> value.t = "num" /\ value.n < val.n
         [] op = "<=" -> value.t = "num" /\ value.n <= val.n
         [] op = ">"  -> value.t = "num" /\ value.n > val.n
         [] op = ">=" -> value.t = "num" /\ value.n >= val.n

\* a filter matches through the index only: a property excluded from the
\* indexes matches no filter
Matches(properties, filter) ==
    /\ filter.name \in DOMAIN properties
    /\ properties[filter.name].excludeFromIndexes # Bool(TRUE)
    /\ Compares(properties[filter.name].value, filter.op, filter.val)

IsPrefix(p, path) == Len(p) <= Len(path) /\ SubSeq(path, 1, Len(p)) = p

KindOf(key) == key.path[Len(key.path) - 1]

\* dsQuery.run(): the entities of the namespace and kind, under the ancestor
\* if one was given (the ancestor itself included), that match every filter
RunQuery(st, dsQuery) ==
    SetToSeq({Stored(st, k) : k \in
        {k \in DOMAIN st :
            /\ k.namespace = dsQuery.namespace
            /\ KindOf(k) = dsQuery.kind
            /\ dsQuery.hasAncestor = Undefined
                  \/ (/\ k.namespace = dsQuery.hasAncestor.namespace
                      /\ IsPrefix(dsQuery.hasAncestor.path, k.path))
            /\ \A f \in dsQuery.filters : Matches(st[k], f)}})

----------------------------------------------------------------------------
(* The service methods *)

\* what a JavaScript condition makes of a value
Truthy(v) ==
    CASE v.t \in {"undef", "null"} -> FALSE
      [] v.t \in {"num", "bool"}   -> v.n # 0
      [] v.t = "str"               -> v.s # <<>> \/ v.pad > 0
      [] OTHER                     -> TRUE

\* a params.query with nothing set
NoQuery ==
    [namespace |-> NoNs, kind |-> Undefined, ancestor |-> Undefined,
     select |-> [on |-> FALSE, names |-> {}],
     dontIndex |-> {}, autoIndex |-> Undefined, create |-> FALSE,
     filters |-> [name \in {} |-> Undefined]]

NoParams == [query |-> NoQuery]

\* how a promise settles, and the datastore it leaves behind
Resolved(result, st, next) ==
    [outcome |-> "resolved", result |-> result, store |-> st, autoId |-> next]

Rejected(err, st, next) ==
    [outcome |-> "rejected", result |-> err, store |-> st, autoId |-> next]

getNotFound(id) == [name |-> "NotFound", code |-> 404, id |-> id]

\* retainOnlySelected of _get: pick([ this.id, ...$select ]) or the identity
retainOnlySelected(query, record) ==
    IF query.select.on THEN pick({this.id} \cup query.select.names, record) ELSE record

\* a variant of _get without check404: a missing entity resolves as null
getUnchecked(st, next, id, params) ==
    LET entity == entityToPlainOne(StoreGet(st, makeKey(id, params)), TRUE)
    IN  IF entity = Undefined
        THEN Resolved(One(Null), st, next)
        ELSE Resolved(One(retainOnlySelected(params.query, entity)), st, next)

_get(st, next, id, params) ==
    LET key    == makeKey(id, params)
        entity == entityToPlainOne(StoreGet(st, key), TRUE)
    IN  IF entity = Undefined
        THEN Rejected(getNotFound(id), st, next)
        ELSE Resolved(One(retainOnlySelected(params.query, entity)), st, next)

\* the key _create makes for one item of data
CreateKey(item, params) ==
    IF this.id \in DOMAIN item
    THEN makeKey(item[this.id], params)
    ELSE makeKey(Undefined, params)

_create(st, next, data, params) ==
    LET entities == [data EXCEPT !.items =
                        [i \in DOMAIN data.items |->
                            [key |-> CreateKey(data.items[i], params),
                             data |-> data.items[i]]]]
        done == StoreInsert(st, next, makeExplicitEntity(entities, params))
    IN  IF done.ok
        THEN Resolved(entityToPlain(done.entities, FALSE), done.store, done.autoId)
        ELSE Rejected(done.err, st, next)

_update(st, next, id, data, params) ==
    LET key    == makeKey(id, params)
        entity == makeExplicitEntity(One([key |-> key, data |-> data]), params)
        done   == IF params.query.create
                  THEN StoreUpsert(st, next, entity)
                  ELSE StoreUpdate(st, next, entity)
    IN  IF done.ok
        THEN Resolved(entityToPlain(entity, FALSE), done.store, done.autoId)
        ELSE IF done.err.code = 400 /\ done.err.message = "no entity to update"
        THEN Resolved(getNotFound(id), st, next)
        ELSE Rejected(done.err, st, next)

\* the digits after a decimal point, without the zeros that end them
RECURSIVE StripZeros(_)
StripZeros(s) ==
    IF s # <<>> /\ s[Len(s)] = "0" THEN StripZeros(SubSeq(s, 1, Len(s) - 1)) ELSE s

\* what follows the first n characters of s
Drop(s, n) == SubSeq(s, n + 1, Len(s))

\* JavaScript's parseFloat(v) on a string, as a number value or NaN: white
\* space and a sign are skipped, the longest decimal prefix is read and the
\* rest ignored. The fraction of the number read is kept in the s field.
\* Exponents are not modelled.
parseFloat(v) ==
    LET trimmed  == SkipSpaces(v.s)
        body     == Unsigned(trimmed)
        digits   == DigitPrefix(body)
        rest     == Drop(body, Len(digits))
        fraction == IF rest # <<>> /\ Head(rest) = "."
                    THEN DigitPrefix(Tail(rest)) ELSE <<>>
    IN  IF v.t # "str" \/ (digits = <<>> /\ fraction = <<>>) THEN [nan |-> TRUE, val |-> Undefined]
        ELSE [nan |-> FALSE,
              val |-> Val("num", Sign(trimmed) * DigitsValue(digits), StripZeros(fraction), 0, <<>>)]

\* opMap of _find: the operators it passes on to the datastore
opMap == [op \in {"$gt", "$gte", "$lt", "$lte", "="} |->
             CASE op = "$gt" -> ">" [] op = "$gte" -> ">=" [] op = "$lt" -> "<"
               [] op = "$lte" -> "<=" [] op = "=" -> "="]

\* a value of the query: a literal, or a map from operators to values
Literal(v) == [literal |-> TRUE, value |-> v, ops |-> [op \in {} |-> Undefined]]

Operators(ops) == [literal |-> FALSE, value |-> Undefined, ops |-> ops]

\* the "Normalize" step of _find: a value that is not an object stands for
\* equality with it
Normalize(value) ==
    IF value.literal THEN [op \in {"="} |-> value.value] ELSE value.ops

\* the value of a comparison, a string that reads as a number made a number
Coerce(val) ==
    IF val.t = "str" /\ ~parseFloat(val).nan THEN parseFloat(val).val ELSE val

\* what is left of params.query once ancestor, namespace, kind and $select
\* are taken out: the field filters, and the write options autoIndex and
\* create when the call carries them (dontIndex, an array, holds no operator)
RestOfQuery(query) ==
    LET auto   == IF query.autoIndex # Undefined
                  THEN [name \in {"autoIndex"} |-> Literal(query.autoIndex)]
                  ELSE [name \in {} |-> Undefined]
        create == IF query.create
                  THEN [name \in {"create"} |-> Literal(Bool(TRUE))]
                  ELSE [name \in {} |-> Undefined]
    IN  Assign(Assign(query.filters, auto), create)

\* a variant of the filters in which an operator opMap does not hold stands
\* for equality
FiltersOfEveryOperator(query) ==
    LET rest == RestOfQuery(query)
    IN  {[name |-> key,
          op   |-> IF op \in DOMAIN opMap THEN opMap[op] ELSE "=",
          val  |-> Coerce(Normalize(rest[key])[op])] :
            <<key, op>> \in {<<k, o>> \in (DOMAIN rest)
                                \X UNION {DOMAIN Normalize(rest[k]) : k \in DOMAIN rest} :
                                o \in DOMAIN Normalize(rest[k])}}

\* the filters _find hands to the datastore: [ key, opMap[op], val ]
Filters(query) ==
    LET rest == RestOfQuery(query)
    IN  {[name |-> key, op |-> opMap[op], val |-> Coerce(Normalize(rest[key])[op])] :
            <<key, op>> \in {<<k, o>> \in (DOMAIN rest) \X (DOMAIN opMap) :
                                o \in DOMAIN Normalize(rest[k])}}

\* filterOutAncestor of _find: data.filter(({ id }) => id !== ancestor)
filterOutAncestor(query, data) ==
    IF Truthy(query.ancestor)
    THEN SelectSeq(data, LAMBDA record :
            ~("id" \in DOMAIN record /\ record["id"] = query.ancestor))
    ELSE data

_find(st, next, params) ==
    LET query   == params.query
        dsQuery == [namespace   |-> EffectiveNamespace(query),
                    kind        |-> IF query.kind = Undefined THEN this.kind ELSE query.kind,
                    hasAncestor |-> IF Truthy(query.ancestor)
                                    THEN makeKey(query.ancestor, params) ELSE Undefined,
                    filters     |-> Filters(query)]
        found   == RunQuery(st, dsQuery)
        plain   == [i \in DOMAIN found |-> entityToPlainOne(found[i], TRUE)]
        kept    == filterOutAncestor(query, plain)
    IN  Resolved(Many([i \in DOMAIN kept |-> retainOnlySelected(query, kept[i])]), st, next)

\* makeNewEntity of _patch
makeNewEntity(current, update, params) ==
    [key |-> makeKey(current[this.id], params), data |-> Assign(current, update)]

\* a variant of the read phase that queries whatever the id
ReadPhaseByQuery(st, next, id, params) == _find(st, next, params)

\* the read phase of _patch and _remove: id ? get(id, params) : find(params)
ReadPhase(st, next, id, params) ==
    IF Truthy(id) THEN _get(st, next, id, params) ELSE _find(st, next, params)

\* the write phase of _patch: what follows the read, on the store as it is
\* by then
WritePhase(st, next, results, data, params) ==
    LET entities == [results EXCEPT !.items =
                        [i \in DOMAIN results.items |->
                            makeNewEntity(results.items[i], data, params)]]
        explicit == makeExplicitEntity(entities, params)
        done     == StoreUpdate(st, next, explicit)
    IN  IF done.ok
        THEN Resolved(entityToPlain(explicit, FALSE), done.store, done.autoId)
        ELSE Rejected(done.err, st, next)

\* _patch with nothing happening between its two phases
_patch(st, next, id, data, params) ==
    LET read == ReadPhase(st, next, id, params)
    IN  IF read.outcome = "rejected" THEN read
        ELSE WritePhase(st, next, read.result, data, params)

_remove(st, next, id, params) ==
    LET read    == ReadPhase(st, next, id, params)
        results == read.result
        keys    == [results EXCEPT !.items =
                       [i \in DOMAIN results.items |->
                           makeKey(results.items[i][this.id], params)]]
    IN  IF read.outcome = "rejected" THEN read
        ELSE IF results = One(Null) THEN Resolved(One(Null), st, next)
        ELSE Resolved(results, StoreDelete(st, keys), next)

----------------------------------------------------------------------------
(* The calls a client makes. Each action is one call of a public method,   *)
(* from its arguments to the settling of the promise it returns; I, D and  *)
(* Q are the identifiers, the data and the params.query a client passes.   *)

NoCall ==
    [method |-> "none", id |-> Undefined, data |-> One(Undefined), params |-> NoParams,
     outcome |-> "none", result |-> Undefined]

\* no patch has read the store yet
NoPatch ==
    [phase |-> "none", id |-> Undefined, data |-> Undefined, params |-> NoParams,
     outcome |-> "none", result |-> Undefined]

\* the state after a call whose promise settled as done
Complete(method, id, data, params, done) ==
    /\ Cardinality(DOMAIN done.store) <= MaxRecords
    /\ done.autoId <= MaxAuto
    /\ last' = [method |-> method, id |-> id, data |-> data, params |-> params,
                outcome |-> done.outcome, result |-> done.result]
    /\ before' = store
    /\ store' = done.store
    /\ autoId' = done.autoId
    /\ UNCHANGED this

\* the state after a call that ran from start to end and settled as done
Settle(method, id, data, params, done) ==
    /\ Complete(method, id, data, params, done)
    /\ UNCHANGED reading

\* the calls of a method that have been made and have not returned yet
Called(method, I, D, Q) ==
    {[NoCall EXCEPT !.method = method, !.id = id, !.data = One(data),
                    !.params = [query |-> query], !.outcome = "called"] :
        id \in I, data \in D, query \in Q}

\* a call of this.makeKey(id, params) returns
MakeKey ==
    /\ last.method = "makeKey" /\ last.outcome = "called"
    /\ Settle("makeKey", last.id, last.data, last.params,
              [outcome |-> "returned", result |-> makeKey(last.id, last.params),
               store |-> store, autoId |-> autoId])

\* a call of this.makeExplicitEntity({ key, data }, params) returns
MakeExplicitEntity ==
    /\ last.method = "makeExplicitEntity" /\ last.outcome = "called"
    /\ Settle("makeExplicitEntity", last.id, last.data, last.params,
              [outcome |-> "returned",
               result |-> makeExplicitEntity(
                              One([key |-> makeKey(last.id, last.params),
                                   data |-> last.data.items[1]]),
                              last.params),
               store |-> store, autoId |-> autoId])

Get(I, Q) ==
    \E id \in I, query \in Q :
        Settle("get", id, One(Undefined), [query |-> query],
               _get(store, autoId, id, [query |-> query]))

Find(Q) ==
    \E query \in Q :
        Settle("find", Undefined, One(Undefined), [query |-> query],
               _find(store, autoId, [query |-> query]))

Create(D, Q) ==
    \E data \in D, query \in Q :
        Settle("create", Undefined, data, [query |-> query],
               _create(store, autoId, data, [query |-> query]))

Update(I, D, Q) ==
    \E id \in I, data \in D, query \in Q :
        Settle("update", id, One(data), [query |-> query],
               _update(store, autoId, id, data, [query |-> query]))

Patch(I, D, Q) ==
    \E id \in I, data \in D, query \in Q :
        Settle("patch", id, One(data), [query |-> query],
               _patch(store, autoId, id, data, [query |-> query]))

Remove(I, Q) ==
    \E id \in I, query \in Q :
        Settle("remove", id, One(Undefined), [query |-> query],
               _remove(store, autoId, id, [query |-> query]))

\* patch(id, data, params) up to the answer to its get or find: the promise
\* chain waits for the datastore, and other calls run meanwhile
PatchRead(I, D, Q) ==
    /\ reading.phase # "read"
    /\ \E id \in I, data \in D, query \in Q :
          LET read == ReadPhase(store, autoId, id, [query |-> query])
          IN  reading' = [phase |-> "read", id |-> id, data |-> data,
                          params |-> [query |-> query],
                          outcome |-> read.outcome, result |-> read.result]
    /\ UNCHANGED <<this, store, autoId, before, last>>

\* a variant of the rest of a patch that reads the store again
PatchWriteAfresh ==
    /\ reading.phase = "read"
    /\ Complete("patch", reading.id, One(reading.data), reading.params,
                _patch(store, autoId, reading.id, reading.data, reading.params))
    /\ reading' = [reading EXCEPT !.phase = "written"]

\* the rest of that patch, from the records it read to its promise settling
PatchWrite ==
    /\ reading.phase = "read"
    /\ Complete("patch", reading.id, One(reading.data), reading.params,
                IF reading.outcome = "rejected"
                THEN Rejected(reading.result, store, autoId)
                ELSE WritePhase(store, autoId, reading.result, reading.data,
                                reading.params))
    /\ reading' = [reading EXCEPT !.phase = "written"]

\* the service after construction with the given options, on an empty
\* store, with one of the given calls made
Constructed(options, calls) ==
    /\ this \in options
    /\ store = [k \in {} |-> Undefined]
    /\ autoId = 0
    /\ before = store
    /\ last \in calls
    /\ reading = NoPatch

\* new Datastore(options): the fields the constructor sets
Service(id, kind, namespace, autoIndex) ==
    [id |-> id, kind |-> kind, namespace |-> namespace, autoIndex |-> autoIndex]

Person == Str(<<"P">>)

----------------------------------------------------------------------------
(* makeKey on every short identifier *)

Chars == {"4", "2", "a", "-", " ", "."}

Strings(n) == UNION {[1..k -> Chars] : k \in 0..n}

KeyIds == {Str(s) : s \in Strings(MaxLen)} \cup {Num(0), Num(4), Num(42), Undefined}

KeyQueries == {[NoQuery EXCEPT !.namespace = ns] : ns \in {NoNs, "Melbourne"}}

InitKey ==
    Constructed({Service("id", Person, ns, FALSE) : ns \in {NoNs, "Sydney"}},
                Called("makeKey", KeyIds, {Undefined}, KeyQueries))

NextKey == MakeKey

SpecKey == InitKey /\ [][NextKey]_vars

----------------------------------------------------------------------------
(* The six methods on a small store *)

\* a params.query with one thing set
Creating == [NoQuery EXCEPT !.create = TRUE]

DontIndex(names) == [NoQuery EXCEPT !.dontIndex = names]

Select(names) == [NoQuery EXCEPT !.select = [on |-> TRUE, names |-> names]]

Where(name, value) == [NoQuery EXCEPT !.filters = [n \in {name} |-> value]]

\* data with the id property set
WithId(data, id) == Assign(data, [name \in {this.id} |-> id])

Bob == Str(<<"a">>)

Ids == {Num(4), Str(<<"4">>), Str(<<"4", "a">>), Bob}

\* no id: what a caller passes to patch or remove many records
NoIds == {Null, Num(0)}

Young == [age |-> Num(1)]

Old == [age |-> Num(2), tag |-> Str(<<"x">>)]

CreateData ==
    {One(Young), Many(<<Young, WithId(Old, Bob)>>)}
        \cup {One(WithId(Young, id)) : id \in Ids}

GetQueries == {NoQuery, Select({"age"})}

FindQueries == {NoQuery, Where("age", Literal(Num(1)))}

UpdateQueries == {NoQuery, Creating}

PatchData == {[age |-> Num(2)]}

PatchQueries ==
    FindQueries \cup {Select({"age"})}

Init == Constructed({Service("id", Person, NoNs, FALSE)}, {NoCall})

Next ==
    \/ Get(Ids, GetQueries)
    \/ Find(FindQueries)
    \/ Create(CreateData, {NoQuery})
    \/ Update(Ids, {Old}, UpdateQueries)
    \/ Patch(Ids \cup NoIds, PatchData, PatchQueries)
    \/ Remove(Ids \cup NoIds, FindQueries)

Spec == Init /\ [][Next]_vars

----------------------------------------------------------------------------
(* makeExplicitEntity on values around the index limit *)

\* strings and Buffers by their length, and the values that have no size
Leaves ==
    {Padded(<<>>, n) : n \in {0, 1000, 1499, 1500, 1501, 2000}}
        \cup {Padded(<<"U+00E9">>, n) : n \in {1498, 1499}}
        \cup {Buf(1500), Buf(1501), Num(7), Num(2000), Bool(TRUE), Null, Undefined}

\* the leaves, and objects and arrays of them nested up to depth
RECURSIVE Values(_)
Values(depth) ==
    IF depth = 0 THEN Leaves
    ELSE Leaves \cup {Obj(<<v>>) : v \in Values(depth - 1)}
                \cup {Arr(<<Num(7), v>>) : v \in Values(depth - 1)}

IndexData == {[text |-> v, age |-> Num(7)] : v \in Values(MaxDepth)}

IndexQueries ==
    {[NoQuery EXCEPT !.dontIndex = names, !.autoIndex = auto] :
        names \in {{}, {"text"}}, auto \in {Undefined, Bool(TRUE), Bool(FALSE)}}

InitIndex ==
    Constructed({Service("id", Person, NoNs, auto) : auto \in BOOLEAN},
                Called("makeExplicitEntity", {Str(<<"a">>)}, IndexData, IndexQueries))

NextIndex == MakeExplicitEntity

SpecIndex == InitIndex /\ [][NextIndex]_vars

----------------------------------------------------------------------------
(* Writes with dontIndex, and the queries that follow them *)

Parent == [age |-> Num(44), children |-> Num(2)]

Elder == [age |-> Num(60), children |-> Num(5)]

AtMost(n) == Operators([op \in {"$lte"} |-> Num(n)])

IndexedWrites == {NoQuery, DontIndex({"age"})}

IndexedFinds ==
    {Where("age", AtMost(50)), Where("children", AtMost(4)),
     Where("age", Literal(Num(44))),
     [NoQuery EXCEPT !.filters = [n \in {"age", "children"} |->
                                     IF n = "age" THEN AtMost(50) ELSE AtMost(4)]]}

InitDontIndex == Constructed({Service("id", Person, NoNs, FALSE)}, {NoCall})

NextDontIndex ==
    \/ Create({One(Parent), One(WithId(Parent, Bob)), One(WithId(Elder, Bob))},
              IndexedWrites)
    \/ Update({Bob}, {Parent, Elder},
              IndexedWrites \cup {[DontIndex({"age"}) EXCEPT !.create = TRUE]})
    \/ Find(IndexedFinds)
    \/ Remove({Bob, Null}, {NoQuery})

SpecDontIndex == InitDontIndex /\ [][NextDontIndex]_vars

----------------------------------------------------------------------------
(* The six methods of two tenants *)

Tenants == {[NoQuery EXCEPT !.namespace = ns] : ns \in {NoNs, "Melbourne"}}

InitNamespace ==
    Constructed({Service("id", Person, ns, FALSE) : ns \in {NoNs, "Sydney"}}, {NoCall})

NextNamespace ==
    \/ Get({Bob}, Tenants)
    \/ Find(Tenants)
    \/ Create({One(Young), One(WithId(Young, Bob))}, Tenants)
    \/ Update({Bob}, {Old}, Tenants)
    \/ Patch({Bob, Null}, PatchData, Tenants)
    \/ Remove({Bob, Null}, Tenants)

SpecNamespace == InitNamespace /\ [][NextNamespace]_vars

----------------------------------------------------------------------------
(* Queries with operators of every sort and values read from strings *)

FilterChars == {"4", "2", "a", "."}

FilterStrings == UNION {[1..k -> FilterChars] : k \in 0..MaxLen}

\* an array as the value of a query field: an object with its indexes as keys
Listed(values) ==
    Operators([key \in {"0", "1"} |-> IF key = "0" THEN values[1] ELSE values[2]])

With(name, op, value) == Where(name, Operators([o \in {op} |-> value]))

Both(name, op1, value1, op2, value2) ==
    Where(name, Operators([o \in {op1, op2} |-> IF o = op1 THEN value1 ELSE value2]))

FilterData ==
    {[age |-> v] : v \in {Num(42), Num(4), Str(<<"4", "2">>), Str(<<"4", "a">>)}}

FilterFinds ==
    {Where("age", Literal(Str(s))) : s \in FilterStrings}
        \cup {Where("age", Literal(Num(42))),
              With("age", "=", Num(4)),
              With("age", "$lte", Str(<<"4", "2">>)),
              With("age", "$ne", Num(42)),
              With("age", "$in", Arr(<<Num(4), Num(42)>>)),
              With("age", "$nin", Arr(<<Num(4), Num(42)>>)),
              Both("age", "$lte", Num(4), "$ne", Num(4)),
              Both("age", "$gt", Num(4), "$in", Arr(<<Num(4), Num(7)>>)),
              Where("$or", Listed(<<Obj(<<Num(4)>>), Obj(<<Num(42)>>)>>)),
              [NoQuery EXCEPT !.filters = [n \in {"age", "$or"} |->
                  IF n = "age" THEN AtMost(4)
                  ELSE Listed(<<Obj(<<Num(4)>>), Obj(<<Num(42)>>)>>)]]}

InitFilter == Constructed({Service("id", Person, NoNs, FALSE)}, {NoCall})

NextFilter ==
    \/ Create({One(WithId(d, id)) : d \in FilterData, id \in {Bob, Num(7)}}, {NoQuery})
    \/ Find(FilterFinds)

SpecFilter == InitFilter /\ [][NextFilter]_vars

----------------------------------------------------------------------------
(* Records under other records, and the queries by ancestor *)

\* the id of a record of the kind under a parent of the kind
Under(parent, id) == Arr(<<Person, parent, Person, id>>)

Descended(ancestor) == [NoQuery EXCEPT !.ancestor = ancestor]

FamilyData ==
    {One(WithId(Young, Bob)), One(WithId(Young, Num(4))),
     One(WithId(Old, Under(Bob, Num(4)))), One(WithId(Old, Under(Num(4), Bob))),
     One(WithId(Young, Under(Num(4), Num(4))))}

FamilyFinds ==
    {[Descended(a) EXCEPT !.filters = f] :
        a \in {Bob, Num(4), Str(<<"4">>)},
        f \in {NoQuery.filters, Where("age", Literal(Num(1))).filters}}

InitAncestor ==
    Constructed({Service(id, Person, NoNs, FALSE) : id \in {"id", "_id"}}, {NoCall})

NextAncestor ==
    \/ Create(FamilyData, {NoQuery})
    \/ Find(FamilyFinds)
    \/ Patch({Null}, PatchData, {NoQuery, Descended(Bob)})
    \/ Remove({Null}, {NoQuery, Descended(Bob)})

SpecAncestor == InitAncestor /\ [][NextAncestor]_vars

----------------------------------------------------------------------------
(* A patch and the calls that run between its read and its write *)

Bobs == {[age |-> Num(1), tag |-> Str(<<t>>)] : t \in {"x", "y"}}

InitRace == Constructed({Service("id", Person, NoNs, FALSE)}, {NoCall})

NextRace ==
    \/ Create({One(WithId(Young, Bob)), One(Young)}, {NoQuery})
    \/ Update({Bob}, Bobs, {NoQuery})
    \/ Remove({Bob}, {NoQuery})
    \/ PatchRead({Bob, Null}, PatchData, {NoQuery})
    \/ PatchWrite

SpecRace == InitRace /\ [][NextRace]_vars

----------------------------------------------------------------------------
(* Properties of the methods *)

\* the key the last call resolved from its id
LastKey == makeKey(last.id, last.params)

\* the single record a promise resolved with
TheRecord(done) == done.result.items[1]

\* C1 (as claimed): update of a key that is not stored creates the record
\* when params.query.create is set; otherwise the promise is rejected with
\* NotFound and the store is left as it was.
C1_UpdateOfMissingKey ==
    (last.method = "update" /\ LastKey \notin DOMAIN before) =>
        IF last.params.query.create
        THEN last.outcome = "resolved" /\ LastKey \in DOMAIN store
        ELSE last.outcome = "rejected" /\ last.result = getNotFound(last.id) /\ store = before

\* C2: get is rejected with NotFound exactly when no entity is stored under
\* the key made from the id; otherwise it resolves with the stored property
\* values ($select, when given, keeping those it names) and with the id
\* property set to the identifier of the key. It never changes the store.
C2_GetFoundOrNotFound ==
    last.method = "get" =>
        /\ store = before
        /\ last.outcome \in {"resolved", "rejected"}
        /\ last.outcome = "rejected" <=> LastKey \notin DOMAIN before
        /\ last.outcome = "rejected" => last.result = getNotFound(last.id)
        /\ last.outcome = "resolved" =>
              LET record == TheRecord(last)
                  select == last.params.query.select
                  shown  == {name \in DOMAIN before[LastKey] :
                                ~select.on \/ name \in select.names} \cup {this.id}
              IN  /\ DOMAIN record = shown
                  /\ record[this.id] = LastOf(LastKey.path)
                  /\ \A name \in shown \ {this.id} :
                        record[name] = before[LastKey][name].value

C2_Witness_GetFound ==
    /\ last.method = "get" /\ last.outcome = "resolved"
    /\ last.params.query.select.on
    /\ "age" \in DOMAIN TheRecord(last)
    /\ Cardinality(DOMAIN store) = 2

\* what get makes of the id that create returned for its i-th record
ReadBack(i) == _get(store, autoId, last.result.items[i][this.id], last.params)

\* C3 (as claimed): after create(R), get of the returned id yields a record
\* deep-equal to R: every property of R, the id property included, has the
\* value written.
C3_RoundTripAsClaimed ==
    (last.method = "create" /\ last.outcome = "resolved") =>
        \A i \in DOMAIN last.data.items :
            LET R == last.data.items[i]
            IN  /\ ReadBack(i).outcome = "resolved"
                /\ DOMAIN TheRecord(ReadBack(i)) = DOMAIN R \cup {this.id}
                /\ \A name \in DOMAIN R : TheRecord(ReadBack(i))[name] = R[name]

\* the identifier a number or string id is stored under: the integer that
\* parseInt reads from it, or the id itself when parseInt reads none
StoredId(id) == IF parseInt(id).nan THEN id ELSE Num(parseInt(id).n)

\* C3 (amended): after create(R), R without an id or with a number or string
\* id, get of the returned id yields the record create returned: every
\* property of R other than the id has the value written, and the id property
\* is the identifier of the key, which is R's id only when parseInt reads no
\* integer from it, and otherwise that integer.
C3_RoundTrip ==
    (last.method = "create" /\ last.outcome = "resolved") =>
        \A i \in DOMAIN last.data.items :
            LET R   == last.data.items[i]
                got == TheRecord(ReadBack(i))
            IN  /\ ReadBack(i).outcome = "resolved"
                /\ got = last.result.items[i]
                /\ DOMAIN got = DOMAIN R \cup {this.id}
                /\ \A name \in DOMAIN R \ {this.id} : got[name] = R[name]
                /\ this.id \in DOMAIN R => got[this.id] = StoredId(R[this.id])
                /\ this.id \notin DOMAIN R => got[this.id].t = "num"

C3_Witness_NumericString ==
    /\ last.method = "create" /\ last.outcome = "resolved"
    /\ this.id \in DOMAIN last.data.items[1]
    /\ last.data.items[1][this.id] = Str(<<"4">>)
    /\ TheRecord(ReadBack(1))[this.id] = Num(4)

\* what the read phase of the last patch or remove found
LastRead == ReadPhase(before, autoId, last.id, last.params)

\* no entity under the key of the id given or, without an id, none that the
\* query finds
FoundNothing ==
    IF Truthy(last.id)
    THEN LastKey \notin DOMAIN before
    ELSE _find(before, autoId, last.params).result.items = <<>>

\* C7 (as claimed): a remove whose read phase finds nothing resolves, with
\* the absent or empty result, and leaves the store as it was.
C7_RemoveOfNothingAsClaimed ==
    (last.method = "remove" /\ FoundNothing) =>
        last.outcome = "resolved" /\ store = before

\* C7 (amended): a remove whose read phase finds nothing leaves the store as
\* it was; with an id (one that is truthy) it is rejected with NotFound, and
\* without one (or with a falsy one, such as 0) it resolves with the empty list.
C7_RemoveOfNothing ==
    (last.method = "remove" /\ FoundNothing) =>
        /\ store = before
        /\ IF Truthy(last.id)
           THEN last.outcome = "rejected" /\ last.result = getNotFound(last.id)
           ELSE last.outcome = "resolved" /\ last.result = Many(<<>>)

C7_Witness_RemoveOfMissingId ==
    /\ last.method = "remove" /\ last.outcome = "rejected"
    /\ Truthy(last.id)
    /\ store = before /\ DOMAIN store # {}

\* the record a get without $select reads under a key
Read(st, key) == entityToPlainOne(Stored(st, key), TRUE)

\* the keys of the service's kind and namespace whose entity matches every
\* field filter of the query
MatchingKeys(st, query) ==
    {k \in DOMAIN st :
        /\ k.namespace = this.namespace /\ KindOf(k) = this.kind
        /\ \A name \in DOMAIN query.filters :
              LET value == query.filters[name]
              IN  /\ name \in DOMAIN st[k]
                  /\ IF value.literal THEN st[k][name].value = value.value
                     ELSE \A op \in DOMAIN value.ops :
                             Compares(st[k][name].value, opMap[op], value.ops[op])}

\* C6 (as claimed): patch without an id updates every stored record that
\* matches the field filters of params.query and no other record, and each
\* updated record then reads as the shallow merge of what it read before
\* with data, data winning.
C6_PatchManyMergesEachMatch ==
    (last.method = "patch" /\ last.id = Null) =>
        /\ last.outcome = "resolved"
        /\ DOMAIN store = DOMAIN before
        /\ \A k \in DOMAIN before :
              IF k \in MatchingKeys(before, last.params.query)
              THEN Read(store, k) = Assign(Read(before, k), last.data.items[1])
              ELSE store[k] = before[k]

\* whether a number or string is an integer numeral from end to end
ReadsFullyAsInteger(id) ==
    \/ id.t = "num"
    \/ /\ id.t = "str" /\ id.pad = 0
       /\ LET body == IF id.s # <<>> /\ Head(id.s) = "-" THEN Tail(id.s) ELSE id.s
          IN  body # <<>> /\ \A i \in DOMAIN body : IsDigit(body[i])

IntegerOf(id) ==
    IF id.t = "num" THEN id.n
    ELSE IF Head(id.s) = "-" THEN -DigitsValue(Tail(id.s)) ELSE DigitsValue(id.s)

\* C4 (as claimed): for a number or string id, makeKey builds the path
\* [kind, id'] where id' is the integer value when all of id reads as an
\* integer and the unchanged id otherwise, so that a string with digits
\* followed by other characters keeps its string form.
C4_MakeKeyReadsWholeId ==
    (last.method = "makeKey" /\ last.outcome = "returned" /\ last.id.t \in {"num", "str"}) =>
        last.result.path =
            <<this.kind, IF ReadsFullyAsInteger(last.id)
                         THEN Num(IntegerOf(last.id)) ELSE last.id>>

\* the values an object or array holds at any depth, or the value itself
RECURSIVE LeavesOf(_)
LeavesOf(value) ==
    IF value.t \in {"obj", "arr"}
    THEN UNION {LeavesOf(value.kids[i]) : i \in DOMAIN value.kids}
    ELSE {value}

\* a string or Buffer of more than 1500 bytes, or a value that holds one
Oversized(value) ==
    \E leaf \in LeavesOf(value) :
        leaf.t \in {"str", "buf"} /\ BufferLength(leaf) > 1500

\* whether the last call had auto-indexing on, by its query or by the service
AutoIndexing ==
    IF last.params.query.autoIndex = Undefined
    THEN this.autoIndex
    ELSE last.params.query.autoIndex = Bool(TRUE)

\* C8: makeExplicitEntity excludes from the indexes every property named in
\* dontIndex, whatever its size; any other property, when auto-indexing is
\* on, is excluded exactly when it is a string or Buffer of more than 1500
\* bytes or an object or array that holds one at any depth; numbers,
\* booleans, null and undefined are never excluded.
C8_IndexExclusion ==
    (last.method = "makeExplicitEntity" /\ last.outcome = "returned") =>
        \A name \in DOMAIN TheRecord(last).data :
            LET property == TheRecord(last).data[name]
                value    == last.data.items[1][name]
            IN  /\ property.value = value
                /\ name \in last.params.query.dontIndex =>
                      property.excludeFromIndexes = Bool(TRUE)
                /\ (name \notin last.params.query.dontIndex /\ AutoIndexing) =>
                      property.excludeFromIndexes = Bool(Oversized(value))
                /\ (name \notin last.params.query.dontIndex /\ AutoIndexing
                        /\ value.t \in {"num", "bool", "null", "undef"}) =>
                      property.excludeFromIndexes = Bool(FALSE)

C8_Witness_NestedLeafOverLimit ==
    /\ last.method = "makeExplicitEntity" /\ last.outcome = "returned"
    /\ last.params.query.dontIndex = {}
    /\ last.data.items[1].text = Obj(<<Arr(<<Num(7), Padded(<<"U+00E9">>, 1499)>>)>>)
    /\ TheRecord(last).data.text.excludeFromIndexes = Bool(TRUE)
    /\ TheRecord(last).data.age.excludeFromIndexes = Bool(FALSE)

\* C5 (as claimed): find with query.ancestor = A returns exactly the stored
\* records of the kind under A that match the other filters, each once, and
\* never A itself, whatever the id property is called and whether A is
\* given as a number or as a numeric string.
C5_FindDescendants ==
    (last.method = "find" /\ Truthy(last.params.query.ancestor)) =>
        LET A    == <<this.kind, StoredId(last.params.query.ancestor)>>
            Desc == {k \in MatchingKeys(before, last.params.query) :
                        k.path # A /\ IsPrefix(A, k.path)}
        IN  /\ last.outcome = "resolved"
            /\ {last.result.items[i] : i \in DOMAIN last.result.items}
                   = {Read(before, k) : k \in Desc}
            /\ Len(last.result.items) = Cardinality(Desc)

\* the filters on a property that a stored value satisfies
Probes(name, value) ==
    {Where(name, Literal(value))}
        \cup (IF value.t = "num"
              THEN {Where(name, Operators([op \in {o} |-> value])) : o \in {"$lte", "$gte"}}
                   \cup {Where(name, Operators([op \in {"$lt"} |-> Num(value.n + 1)]))}
              ELSE {})

\* the ids of the records a find with the query returns now
Finds(query) ==
    LET found == _find(store, autoId, [query |-> query]).result.items
    IN  {found[i][this.id] : i \in DOMAIN found}

\* the record a find with the query returns now for the key, all of it
FindsIntact(query, key) ==
    LET found == _find(store, autoId, [query |-> query]).result.items
    IN  \E i \in DOMAIN found :
           /\ found[i][this.id] = LastOf(key.path)
           /\ \A name \in DOMAIN store[key] \ {this.id} :
                 name \in DOMAIN found[i] /\ found[i][name] = store[key][name].value

\* the keys a create or update that resolved with records wrote
WrittenKeys == {k \in DOMAIN store : k \notin DOMAIN before \/ store[k] # before[k]}

\* C9: a create or update stores each property named in dontIndex, and no
\* other, as excluded from the indexes; from then on no find filter on such
\* a property returns the record, whatever the filter, while every filter
\* that an indexed property satisfies returns the record with all its
\* properties, the unindexed ones included.
C9_DontIndexUnqueryable ==
    /\ (last.method \in {"create", "update"} /\ last.outcome = "resolved") =>
          \A k \in WrittenKeys : \A name \in DOMAIN store[k] :
              (store[k][name].excludeFromIndexes = Bool(TRUE))
                  <=> (name \in last.params.query.dontIndex)
    /\ \A k \in DOMAIN store : \A name \in DOMAIN store[k] :
          \A probe \in Probes(name, store[k][name].value) :
              IF store[k][name].excludeFromIndexes = Bool(TRUE)
              THEN LastOf(k.path) \notin Finds(probe)
              ELSE FindsIntact(probe, k)

C9_Witness_UnindexedAge ==
    /\ last.method = "update" /\ last.outcome = "resolved"
    /\ last.params.query.dontIndex = {"age"}
    /\ WrittenKeys # {}
    /\ Cardinality(DOMAIN store) = 2
    /\ Bob \notin Finds(Where("age", AtMost(50)))
    /\ Bob \in Finds(Where("children", AtMost(4)))

\* the namespace the last call was made for
LastNamespace ==
    IF last.params.query.namespace # NoNs
    THEN last.params.query.namespace
    ELSE this.namespace

\* the keys of the kind in a namespace
KeysIn(st, namespace) ==
    {k \in DOMAIN st : k.namespace = namespace /\ KindOf(k) = this.kind}

\* the keys whose entity the last call created, changed or deleted
Changed ==
    {k \in DOMAIN store \cup DOMAIN before :
        k \notin DOMAIN before \/ k \notin DOMAIN store \/ store[k] # before[k]}

\* C10: every call works in the namespace of params.query, or else in the
\* service's: it creates, changes and deletes keys of that namespace only;
\* get resolves exactly when the id is stored in that namespace, with the
\* record stored there; find returns exactly the records stored in that
\* namespace; patch and remove without id reach every record of that
\* namespace and no other.
C10_NamespaceScoping ==
    LET N    == LastNamespace
        mine == KeysIn(before, N)
        key  == [namespace |-> N, path |-> <<this.kind, StoredId(last.id)>>]
    IN  /\ \A k \in Changed : k.namespace = N
        /\ last.method = "get" =>
              /\ (last.outcome = "resolved") <=> (key \in DOMAIN before)
              /\ last.outcome = "resolved" => TheRecord(last) = Read(before, key)
        /\ last.method = "find" =>
              /\ {last.result.items[i] : i \in DOMAIN last.result.items}
                     = {Read(before, k) : k \in mine}
              /\ Len(last.result.items) = Cardinality(mine)
        /\ (last.method = "create" /\ last.outcome = "resolved") =>
              \E k \in Changed : k \notin DOMAIN before
        /\ (last.method = "remove" /\ ~Truthy(last.id)) =>
              DOMAIN store = DOMAIN before \ mine
        /\ (last.method = "patch" /\ ~Truthy(last.id)) =>
              \A k \in mine :
                  Read(store, k) = Assign(Read(before, k), last.data.items[1])

C10_Witness_TwoTenants ==
    /\ this.namespace = "Sydney"
    /\ last.method = "find" /\ last.params.query.namespace = NoNs
    /\ Len(last.result.items) = 1
    /\ KeysIn(before, "Melbourne") # {}
    /\ KeysIn(before, "Sydney") # {}

\* the operators of a query value that find recognizes
Recognized == {"$gt", "$gte", "$lt", "$lte", "="}

\* the query without the operators that find does not recognize
Screened(query) ==
    [query EXCEPT !.filters =
        [name \in DOMAIN query.filters |->
            IF query.filters[name].literal THEN query.filters[name]
            ELSE Operators([op \in DOMAIN query.filters[name].ops \cap Recognized |->
                               query.filters[name].ops[op]])]]

FullyDecimal(s) ==
    /\ \A i \in DOMAIN s : IsDigit(s[i]) \/ s[i] = "."
    /\ \E i \in DOMAIN s : IsDigit(s[i])
    /\ Cardinality({i \in DOMAIN s : s[i] = "."}) <= 1

\* the value a filter value stands for when only whole numerals are numbers
AsCompared(val) ==
    IF val.t = "str" /\ FullyDecimal(val.s) THEN parseFloat(val).val ELSE val

\* C15 (as claimed): a find by equality with a string returns the records
\* whose property equals the number the string denotes when the whole string
\* is a decimal numeral, and otherwise the records whose property equals
\* the string itself.
C15_CoercesWholeNumerals ==
    (/\ last.method = "find"
     /\ DOMAIN last.params.query.filters = {"age"}
     /\ last.params.query.filters.age.literal
     /\ last.params.query.filters.age.value.t = "str") =>
        LET val   == AsCompared(last.params.query.filters.age.value)
            equal == {k \in DOMAIN before : before[k].age.value = val}
        IN  /\ last.outcome = "resolved"
            /\ {last.result.items[i] : i \in DOMAIN last.result.items}
                   = {Read(before, k) : k \in equal}

\* C12 (as claimed): the property list that create, update or patch hands
\* to the store for a record holds no property named by the service's id
\* property, also when the data of the call held one.
C12_IdNotStoredAsProperty ==
    (last.method \in {"create", "update", "patch"} /\ last.outcome = "resolved") =>
        \A k \in WrittenKeys : this.id \notin DOMAIN store[k]

\* the keys of the records the patch in hand read
KeysRead ==
    {makeKey(reading.result.items[i][this.id], reading.params) :
        i \in DOMAIN reading.result.items}

\* C13 (as claimed): a patch whose read found records, one of which is gone
\* from the store when the patch writes, fails with NotFound.
C13_PatchOfVanishedRecord ==
    (/\ last.method = "patch" /\ reading.phase = "written"
     /\ reading.outcome = "resolved"
     /\ \E k \in KeysRead : k \notin DOMAIN before) =>
        /\ last.outcome = "rejected"
        /\ last.result.code = 404 /\ last.result.name = "NotFound"

\* C14: a patch writes what it read merged with its data, whatever the store
\* holds by the time it writes: each record it read is replaced by that
\* merge, so that what another call wrote to the record between the read
\* and the write, in properties the patch data does not name, is gone; a
\* patch whose read failed fails with the error of the read.
C14_PatchWritesFromStaleRead ==
    (last.method = "patch" /\ reading.phase = "written") =>
        IF reading.outcome = "rejected"
        THEN last.outcome = "rejected" /\ last.result = reading.result
        ELSE last.outcome = "resolved" =>
                \A i \in DOMAIN reading.result.items :
                    LET current == reading.result.items[i]
                        key     == makeKey(current[this.id], reading.params)
                    IN  /\ key \in DOMAIN store
                        /\ Deconstruct(store[key]) = Assign(current, reading.data)

C14_Witness_LostUpdate ==
    /\ last.method = "patch" /\ reading.phase = "written"
    /\ last.outcome = "resolved" /\ reading.outcome = "resolved"
    /\ \E k \in KeysRead :
          /\ k \in DOMAIN before /\ k \in DOMAIN store
          /\ "tag" \in DOMAIN before[k] /\ "tag" \in DOMAIN store[k]
          /\ before[k].tag.value = Str(<<"y">>)
          /\ store[k].tag.value = Str(<<"x">>)
          /\ "tag" \notin DOMAIN reading.data

\* C16 (as claimed): after a patch by id succeeds, every property of the
\* stored record that the patch data does not name (the id apart, which the
\* key holds) has the value it had before, whatever the params, $select
\* included.
C16_PatchFrame ==
    (/\ last.method = "patch" /\ Truthy(last.id) /\ last.outcome = "resolved"
     /\ LastKey \in DOMAIN before) =>
        /\ LastKey \in DOMAIN store
        /\ \A name \in DOMAIN before[LastKey] \ (DOMAIN last.data.items[1] \cup {this.id}) :
              /\ name \in DOMAIN store[LastKey]
              /\ store[LastKey][name].value = before[LastKey][name].value

\* the keys of the records that the find of the last call returned from
\* the store the call started on: those of the kind that match the filters,
\* at or under the ancestor when the query names one, that the filter on
\* the ancestor's id let through
FoundKeys ==
    LET query == last.params.query
        A     == <<this.kind, StoredId(query.ancestor)>>
    IN  {k \in MatchingKeys(before, query) :
            Truthy(query.ancestor) =>
                /\ IsPrefix(A, k.path)
                /\ filterOutAncestor(query, <<Read(before, k)>>) # <<>>}

\* C17 (as claimed): remove without id deletes exactly the records its query
\* found, and patch without id writes to no record but those its query
\* found, also when they are stored under an ancestor.
C17_ActsOnFoundRecords ==
    /\ (last.method = "remove" /\ last.id = Null) =>
          /\ last.outcome = "resolved"
          /\ DOMAIN store = DOMAIN before \ FoundKeys
          /\ \A k \in DOMAIN store : store[k] = before[k]
    /\ (last.method = "patch" /\ last.id = Null) =>
          /\ last.outcome = "resolved"
          /\ Changed \subseteq FoundKeys
          /\ \A k \in FoundKeys :
                k \in DOMAIN store
                    /\ store[k].age.value = last.data.items[1].age

====
